---- MODULE Spec2Model ----
(***************************************************************************)
(* Authentication core of the FastShop backend: registration, login, the   *)
(* signed expiring session token carried in the `jwt` cookie, session      *)
(* verification and logout.                                                *)
(*                                                                         *)
(* auth/route.py and auth/util.py are modelled statement by statement.     *)
(* The `user` table behind database.util.execute_command, the token codec  *)
(* HS256JWTCodec and the helpers is_registered, is_correct_password and    *)
(* fetch_user_profile, which route.py imports, are defined outside these   *)
(* two files; they are modelled from sections 4.2-4.4 of the               *)
(* specification.                                                          *)
(*                                                                         *)
(* A request is a process with a position (pc): between two statements of  *)
(* a handler that read or write the shared table, or that read the clock,  *)
(* other requests may run and the clock may advance.                       *)
(***************************************************************************)
EXTENDS Integers, Sequences, FiniteSets, TLC

\* ------------------------------------------------------------------ bounds
\* The clock is counted in days, 0..MaxTime.
MaxTime == 2
\* Rows the `user` table may hold.
MaxRows == 3
\* timedelta(days=1)
ExpirationTimeDelta == 1

\* Requests in progress at the same time. Registrations, which write the table,
\* run in every slot; the session handlers (login, verify_jwt, logout) share
\* nothing with one another but the clock, and run in one.
Requests == {"r1", "r2"}
SessionRequests == {"r1"}
Emails == {"a@b.com", "u@x.com"}
Passwords == {"right", "wrong"}
Profiles ==
    { [firstname |-> "A", lastname |-> "B", gender |-> "F", birthday |-> 157780800],
      [firstname |-> "C", lastname |-> "D", gender |-> "M", birthday |-> 0] }

\* HTTPStatus
OK == 200
UNAUTHORIZED == 401
FORBIDDEN == 403
UNPROCESSABLE_ENTITY == 422
BAD_REQUEST == 400

VARIABLES
    users,      \* the `user` table: a sequence of rows, in insertion order
    now,        \* the system clock
    req,        \* req[r]: the request handled in slot r and its position
    held,       \* the token of the jwt cookie the client was last sent (none or one)
    dropped,    \* that token, once a logout response deleted its cookie: the
                \* client's copy of it can still be replayed
    trial,      \* the codec exercised on its own: last encode and decode
    items,      \* the `item` table: a set of rows
    tags,       \* the `tag` table: a set of rows
    tag_of_items, \* the `tag_of_item` table: a set of (item_id, tag_id) rows
    served      \* the catalog request served last, with its response

vars == <<users, now, req, held, dropped, trial, items, tags, tag_of_items, served>>

\* The catalog's part of the state, which the auth handlers never touch.
catalog == <<items, tags, tag_of_items, served>>

\* ------------------------------------------------------------ PasswordHasher
\* sha512().update(password.encode("utf-8")).hexdigest(): a digest is not the
\* plaintext, and two plaintexts have two digests.
sha512 ==
    [p \in Passwords |->
        CASE p = "right" -> "b7e3...digest-of-right"
          [] p = "wrong" -> "1f40...digest-of-wrong"]

\* ----------------------------------------------------------- CredentialStore
\* SELECT COUNT(*) FROM `user` WHERE email=? and password=?
CountEmailAndPassword(tbl, email, hash) ==
    Cardinality({i \in 1..Len(tbl) : tbl[i].email = email /\ tbl[i].password = hash})

\* SELECT COUNT(*) FROM `user` WHERE email=?
CountEmail(tbl, email) ==
    Cardinality({i \in 1..Len(tbl) : tbl[i].email = email})

\* A table without the unique constraint: every INSERT is taken.
NoUniqueConstraint(tbl, email) == FALSE

\* The unique constraint of the email column: the INSERT is refused when a row
\* with that email is stored.
UniqueEmailViolated(tbl, email) == CountEmail(tbl, email) > 0

\* INSERT INTO `user`(email, password, firstname, lastname, sex, birthday).
\* The four profile columns are kept as one value, the profile of the request.
InsertUser(tbl, email, hash, profile) ==
    Append(tbl, [email |-> email, password |-> hash, profile |-> profile])

\* CredentialStore.create: atomic check-then-insert. "rejected" is the store's
\* DuplicateEmail; the table is then left as it was.
StoreCreate(tbl, email, hash, profile) ==
    IF UniqueEmailViolated(tbl, email)
    THEN [outcome |-> "DuplicateEmail", tbl |-> tbl]
    ELSE [outcome |-> "created", tbl |-> InsertUser(tbl, email, hash, profile)]

\* ---------------------------------------------------------------- auth/util
\* register, lines 42-50: the SELECT that decides the early `return False`.
register_user_count(tbl, email, password) ==
    CountEmailAndPassword(tbl, email, sha512[password])

\* login, lines 28-37.
login(tbl, email, password) ==
    CountEmailAndPassword(tbl, email, sha512[password]) > 0

\* is_registered: CredentialStore.exists(email).
is_registered(tbl, email) == CountEmail(tbl, email) > 0

\* is_correct_password: digest = hash(password); CredentialStore.matches(email,
\* digest), true iff exactly one stored credential has that email and digest.
is_correct_password(tbl, email, password) ==
    CountEmailAndPassword(tbl, email, sha512[password]) = 1

\* fetch_user_profile: read-only lookup of the profile stored with the email.
fetch_user_profile(tbl, email) ==
    LET i == CHOOSE i \in 1..Len(tbl) : tbl[i].email = email
    IN tbl[i].profile

\* --------------------------------------------------------------- TokenCodec
\* The process-wide secret (current_app.config["jwt_key"]) and a key the
\* server does not hold.
jwt_key == "server-secret"
foreign_key == "not-the-server-secret"

\* A JSON number and a JSON string, as the value of the expiry claim.
JNum(n) == [num |-> n]
JStr(s) == [str |-> s]

\* base64url(JSON(mapping)) and base64url(bytes), without padding.
B64Json(mapping) == [enc |-> "base64url", json |-> mapping]
B64Bytes(bytes) == [enc |-> "base64url", bytes |-> bytes]
IsB64Json(seg) == seg.enc = "base64url" /\ "json" \in DOMAIN seg
IsB64Bytes(seg) == seg.enc = "base64url" /\ "bytes" \in DOMAIN seg

\* HMAC-SHA256 of header_b64 + "." + payload_b64 under a key: two different
\* (key, message) pairs have two different digests.
HMAC_SHA256(key, header_b64, payload_b64) ==
    [hmac |-> "sha256", key |-> key, msg |-> <<header_b64, payload_b64>>]

JwtHeader == [alg |-> "HS256", typ |-> "JWT"]

\* encode with the ttl left out of the expiry claim.
encode_without_ttl(key, claims, ttl, t) ==
    LET header_b64 == B64Json(JwtHeader)
        payload_b64 == B64Json(("exp" :> JNum(t)) @@ claims)
    IN <<header_b64, payload_b64,
         B64Bytes(HMAC_SHA256(key, header_b64, payload_b64))>>

\* encode(claims, ttl) read at clock t: payload = claims plus exp = t + ttl.
encode(key, claims, ttl, t) ==
    LET header_b64 == B64Json(JwtHeader)
        payload_b64 == B64Json(("exp" :> JNum(t + ttl)) @@ claims)
    IN <<header_b64, payload_b64,
         B64Bytes(HMAC_SHA256(key, header_b64, payload_b64))>>

NoPayload == [none |-> TRUE]

\* decode with the expiry compared the other way round: a token is still taken
\* at the instant of its expiry claim.
decode_expiry_inclusive(key, token, t) ==
    IF \/ Len(token) # 3
       \/ ~IsB64Json(token[1])
       \/ ~IsB64Json(token[2])
       \/ ~IsB64Bytes(token[3])
       \/ "exp" \notin DOMAIN token[2].json
       \/ "num" \notin DOMAIN token[2].json["exp"]
    THEN [error |-> "MalformedToken", payload |-> NoPayload]
    ELSE IF token[3].bytes # HMAC_SHA256(key, token[1], token[2])
    THEN [error |-> "InvalidSignature", payload |-> NoPayload]
    ELSE IF token[2].json["exp"].num < t
    THEN [error |-> "Expired", payload |-> NoPayload]
    ELSE [error |-> "none", payload |-> token[2].json]

\* decode that takes an expiry claim that is no number for no expiry at all.
decode_lenient_expiry(key, token, t) ==
    IF \/ Len(token) # 3
       \/ ~IsB64Json(token[1])
       \/ ~IsB64Json(token[2])
       \/ ~IsB64Bytes(token[3])
       \/ "exp" \notin DOMAIN token[2].json
    THEN [error |-> "MalformedToken", payload |-> NoPayload]
    ELSE IF token[3].bytes # HMAC_SHA256(key, token[1], token[2])
    THEN [error |-> "InvalidSignature", payload |-> NoPayload]
    ELSE IF "num" \in DOMAIN token[2].json["exp"] /\ token[2].json["exp"].num <= t
    THEN [error |-> "Expired", payload |-> NoPayload]
    ELSE [error |-> "none", payload |-> token[2].json]

\* decode(token) read at clock t.
decode(key, token, t) ==
    IF \/ Len(token) # 3
       \/ ~IsB64Json(token[1])
       \/ ~IsB64Json(token[2])
       \/ ~IsB64Bytes(token[3])
       \/ "exp" \notin DOMAIN token[2].json
       \/ "num" \notin DOMAIN token[2].json["exp"]
    THEN [error |-> "MalformedToken", payload |-> NoPayload]
    ELSE IF token[3].bytes # HMAC_SHA256(key, token[1], token[2])
    THEN [error |-> "InvalidSignature", payload |-> NoPayload]
    ELSE IF token[2].json["exp"].num <= t
    THEN [error |-> "Expired", payload |-> NoPayload]
    ELSE [error |-> "none", payload |-> token[2].json]

\* is_valid_jwt(token) read at clock t: never raises.
is_valid_jwt(key, token, t) == decode(key, token, t).error = "none"

\* The expiry claim of a well-formed token.
ExpOf(token) == token[2].json["exp"].num

\* Tokens a client can put in the jwt cookie once it holds a token: the token
\* itself, and the token with one segment changed.
FlipSignature(token) ==
    <<token[1], token[2], B64Bytes(HMAC_SHA256(foreign_key, token[1], token[2]))>>
ExtendExpiry(token) ==
    <<token[1],
      B64Json(("exp" :> JNum(ExpOf(token) + 1)) @@ token[2].json),
      token[3]>>
DropSignature(token) == <<token[1], token[2]>>

Presentable(tokens) ==
    tokens \cup {FlipSignature(t) : t \in tokens}
           \cup {ExtendExpiry(t) : t \in tokens}
           \cup {DropSignature(t) : t \in tokens}
           \cup {<<>>}

\* ---------------------------------------------------------------- requests
NoProfile == [none |-> TRUE]
NoCookie == [set |-> FALSE]

Idle ==
    [op |-> "none", pc |-> "idle", email |-> "", password |-> "",
     profile |-> NoProfile, has_jwt |-> FALSE, jwt |-> <<>>,
     ret |-> "", status |-> 0, message |-> "", payload |-> NoPayload,
     set_cookie |-> NoCookie]

\* _make_single_message_response(code, message)
make_single_message_response(q, code, message) ==
    [q EXCEPT !.pc = "done", !.status = code, !.message = message]

\* No catalog request served yet. A served request is kept with the cookie and
\* the tag name it came with, and its response: status, message and JSON body
\* (the body as a set of entries).
NoServed ==
    [op |-> "none", pc |-> "idle", has_jwt |-> FALSE, jwt |-> <<>>, name |-> "",
     status |-> 0, message |-> "", body |-> {}]

Init ==
    /\ users = <<>>
    /\ now = 0
    /\ req = [r \in Requests |-> Idle]
    /\ held = {}
    /\ dropped = {}
    /\ trial = [encoded |-> FALSE]
    /\ items = {}
    /\ tags = {}
    /\ tag_of_items = {}
    /\ served = NoServed

\* The clock advances; it never goes back.
Tick ==
    /\ now < MaxTime
    /\ now' = now + 1
    /\ UNCHANGED <<users, req, held, dropped, trial, catalog>>

\* The response of a finished request is delivered (after an uncaught exception,
\* the framework's own error response). A jwt cookie set at login
\* replaces the one the client had; the cookie deleted at logout leaves the
\* client's jar, and the token it held stays replayable.
Deliver(r) ==
    /\ req[r].pc \in {"done", "raised"}
    /\ req' = [req EXCEPT ![r] = Idle]
    /\ held' = IF req[r].op = "login" /\ req[r].set_cookie.set
               THEN {req[r].set_cookie.value}
               ELSE held
    /\ dropped' = IF req[r].op = "login" /\ req[r].set_cookie.set THEN {}
                  ELSE IF req[r].op = "logout" THEN held
                  ELSE dropped
    /\ UNCHANGED <<users, now, trial, catalog>>

\* ------------------------------------------------------------ POST /register
\* register_route, lines 107-114: what the route answers for what register did.
\* The answer carries a status and a message; the profile is not part of it.
register_route_response(q, ret) ==
    IF ret = "EmailAlreadyRegisteredError"
    THEN [make_single_message_response(q, FORBIDDEN, "DUPLICATE_ACCOUNT")
            EXCEPT !.ret = ret, !.profile = NoProfile]
    ELSE [make_single_message_response(q, OK, "OK")
            EXCEPT !.ret = ret, !.profile = NoProfile]

\* register_route up to register's SELECT (util.py lines 42-50).
RegisterSelect(r, email, password, profile) ==
    /\ req[r].pc = "idle"
    /\ LET q == [Idle EXCEPT !.op = "register", !.email = email,
                              !.password = password, !.profile = profile]
       IN req' = [req EXCEPT ![r] =
                    IF register_user_count(users, email, password) > 0
                    THEN register_route_response(q, "False")
                    ELSE [q EXCEPT !.pc = "insert"]]
    /\ UNCHANGED <<users, now, held, dropped, trial, catalog>>

\* register's INSERT (util.py lines 52-64) and the route's answer.
RegisterInsert(r) ==
    /\ req[r].pc = "insert"
    /\ Len(users) < MaxRows
    /\ LET c == StoreCreate(users, req[r].email, sha512[req[r].password],
                            req[r].profile)
       IN /\ users' = c.tbl
          /\ req' = [req EXCEPT ![r] =
                       register_route_response(req[r],
                           IF c.outcome = "created" THEN "True"
                           ELSE "EmailAlreadyRegisteredError")]
    /\ UNCHANGED <<now, held, dropped, trial, catalog>>

\* --------------------------------------------------------------- POST /login
\* The password comparison left out: a registered email is enough.
email_only(tbl, email, password) == is_registered(tbl, email)

\* _is_correct_email_and_password, lines 145-146.
is_correct_email_and_password(tbl, email, password) ==
    is_registered(tbl, email) /\ is_correct_password(tbl, email, password)

\* The whole row of the email put in the payload, its password column included.
login_payload_whole_row(tbl, email) ==
    LET i == CHOOSE i \in 1..Len(tbl) : tbl[i].email = email
    IN tbl[i].profile @@ ("e-mail" :> email) @@ ("password" :> tbl[i].password)

\* login_route, lines 63-64: payload = {"e-mail": ...} | fetch_user_profile(...)
login_payload(tbl, email) ==
    fetch_user_profile(tbl, email) @@ ("e-mail" :> email)

\* _set_jwt_cookie_to_response, line 172: the cookie's expires attribute, from a
\* reading of the clock of its own.
cookie_expires(t, expiration_time_delta) == t + expiration_time_delta

\* login_route with a failure message of its own for an email that is not
\* registered.
LoginEncode_revealing(r, email, password) ==
    /\ req[r].pc = "idle"
    /\ LET q == [Idle EXCEPT !.op = "login", !.email = email,
                              !.password = password]
       IN req' = [req EXCEPT ![r] =
                    IF ~is_registered(users, email)
                    THEN make_single_message_response(q, FORBIDDEN, "NO_SUCH_ACCOUNT")
                    ELSE IF ~is_correct_password(users, email, password)
                    THEN make_single_message_response(
                             q, FORBIDDEN, "INCORRECT_EMAIL_OR_PASSWORD")
                    ELSE [q EXCEPT !.pc = "set_cookie",
                                   !.jwt = encode(jwt_key, login_payload(users, email),
                                                  ExpirationTimeDelta, now)]]
    /\ UNCHANGED <<users, now, held, dropped, trial, catalog>>

\* login_route up to codec.encode (lines 54-65, 167-168).
LoginEncode(r, email, password) ==
    /\ req[r].pc = "idle"
    /\ LET q == [Idle EXCEPT !.op = "login", !.email = email,
                              !.password = password]
       IN req' = [req EXCEPT ![r] =
                    IF ~is_correct_email_and_password(users, email, password)
                    THEN make_single_message_response(
                             q, FORBIDDEN, "INCORRECT_EMAIL_OR_PASSWORD")
                    ELSE [q EXCEPT !.pc = "set_cookie",
                                   !.jwt = encode(jwt_key, login_payload(users, email),
                                                  ExpirationTimeDelta, now)]]
    /\ UNCHANGED <<users, now, held, dropped, trial, catalog>>

\* The JSON a client posts to /login: nothing, a mapping that lacks a key, a
\* mapping whose e-mail is no address, and the mappings that pass the
\* validation, with and without a key the route does not know.
NoData == [none |-> TRUE]
BadLoginData ==
    { NoData,
      ("password" :> "right"),
      ("e-mail" :> "a@b.com"),
      ("e-mail" :> "not-an-address") @@ ("password" :> "right") }
GoodLoginData ==
    {("e-mail" :> e) @@ ("password" :> p) : e \in Emails, p \in Passwords}
        \cup {("e-mail" :> e) @@ ("password" :> p) @@ ("role" :> "admin") :
                  e \in Emails, p \in Passwords}
LoginData == BadLoginData \cup GoodLoginData

\* is_valid_email: the addresses of the model are the well-formed ones.
is_valid_email(email) == email \in Emails

\* login_route, lines 45-52: the status of the refusal, 0 when the data pass.
login_route_validation(data) ==
    IF data = NoData \/ "e-mail" \notin DOMAIN data \/ "password" \notin DOMAIN data
    THEN BAD_REQUEST
    ELSE IF ~is_valid_email(data["e-mail"])
    THEN UNPROCESSABLE_ENTITY
    ELSE 0

\* login_route, lines 45-52: the posted data are refused.
LoginReject(r, data) ==
    /\ req[r].pc = "idle"
    /\ login_route_validation(data) # 0
    /\ req' = [req EXCEPT ![r] =
                 make_single_message_response(
                     [Idle EXCEPT !.op = "login"],
                     login_route_validation(data),
                     IF login_route_validation(data) = BAD_REQUEST
                     THEN "WRONG_DATA_FORMAT" ELSE "INVALID_DATA")]
    /\ UNCHANGED <<users, now, held, dropped, trial, catalog>>

\* login_route, lines 42-67, on the posted data.
LoginPost(r, data) ==
    IF login_route_validation(data) # 0
    THEN LoginReject(r, data)
    ELSE LoginEncode(r, data["e-mail"], data["password"])

\* response.set_cookie (lines 169-173) and the return of the response.
LoginSetCookie(r) ==
    /\ req[r].pc = "set_cookie"
    /\ req' = [req EXCEPT ![r] =
                 [make_single_message_response(req[r], OK, "OK") EXCEPT
                    !.set_cookie =
                        [set |-> TRUE, value |-> req[r].jwt,
                         expires |-> cookie_expires(now, ExpirationTimeDelta)]]]
    /\ UNCHANGED <<users, now, held, dropped, trial, catalog>>

\* ---------------------------------------------------------- POST /verify_jwt
\* A pre-check that also refuses the tokens a logout dropped (a denylist).
verify_jwt_precheck_revoking(q, t) ==
    IF ~q.has_jwt
    THEN make_single_message_response(q, UNAUTHORIZED, "ABSENT_COOKIE")
    ELSE IF ~is_valid_jwt(jwt_key, q.jwt, t) \/ q.jwt \in dropped
    THEN make_single_message_response(q, UNPROCESSABLE_ENTITY, "INVALID_COOKIE")
    ELSE [q EXCEPT !.pc = "decode"]

\* verify_jwt_route, lines 122-131: the cookie's presence and the pre-check.
verify_jwt_precheck(q, t) ==
    IF ~q.has_jwt
    THEN make_single_message_response(q, UNAUTHORIZED, "ABSENT_COOKIE")
    ELSE IF ~is_valid_jwt(jwt_key, q.jwt, t)
    THEN make_single_message_response(q, UNPROCESSABLE_ENTITY, "INVALID_COOKIE")
    ELSE [q EXCEPT !.pc = "decode"]

\* The payload segment read without the codec's checks.
verify_jwt_decode_unverified(q, t) ==
    [q EXCEPT !.pc = "done", !.status = OK, !.payload = q.jwt[2].json]

\* verify_jwt_route, lines 133-134: decode is called outside any try; what it
\* raises leaves the handler uncaught (pc "raised"), and no response is built.
verify_jwt_decode(q, t) ==
    LET d == decode(jwt_key, q.jwt, t)
    IN IF d.error = "none"
       THEN [q EXCEPT !.pc = "done", !.status = OK, !.payload = d.payload]
       ELSE [q EXCEPT !.pc = "raised", !.message = d.error]

VerifyCheck(r, has_jwt, jwt) ==
    /\ req[r].pc = "idle"
    /\ req' = [req EXCEPT ![r] =
                 verify_jwt_precheck(
                     [Idle EXCEPT !.op = "verify_jwt", !.has_jwt = has_jwt,
                                  !.jwt = jwt], now)]
    /\ UNCHANGED <<users, now, held, dropped, trial, catalog>>

VerifyDecode(r) ==
    /\ req[r].pc = "decode"
    /\ req' = [req EXCEPT ![r] = verify_jwt_decode(req[r], now)]
    /\ UNCHANGED <<users, now, held, dropped, trial, catalog>>

\* -------------------------------------------------------------- POST /logout
\* A logout that deletes the accounts.
logout_route_users_deleting(tbl) == <<>>

\* logout_route, lines 139-142: the table the handler leaves behind. It reads and
\* writes nothing.
logout_route_users(tbl) == tbl

\* response.delete_cookie("jwt"): an empty jwt cookie that expired at the epoch.
DeletedCookie == [set |-> TRUE, value |-> <<>>, expires |-> 0]

Logout(r) ==
    /\ req[r].pc = "idle"
    /\ req' = [req EXCEPT ![r] =
                 [make_single_message_response(
                      [Idle EXCEPT !.op = "logout"], OK, "OK")
                  EXCEPT !.set_cookie = DeletedCookie]]
    /\ users' = logout_route_users(users)
    /\ UNCHANGED <<now, held, dropped, trial, catalog>>

\* ------------------------------------------------------------ specification
Next ==
    \/ Tick
    \/ \E r \in Requests : Deliver(r)
    \/ \E r \in Requests, e \in Emails, p \in Passwords, f \in Profiles :
           RegisterSelect(r, e, p, f)
    \/ \E r \in Requests : RegisterInsert(r)
    \/ \E r \in SessionRequests, data \in LoginData : LoginPost(r, data)
    \/ \E r \in SessionRequests : LoginSetCookie(r)
    \/ \E r \in SessionRequests : VerifyCheck(r, FALSE, <<>>)
    \/ \E r \in SessionRequests, t \in Presentable(held) : VerifyCheck(r, TRUE, t)
    \/ \E r \in SessionRequests : VerifyDecode(r)
    \/ \E r \in SessionRequests : Logout(r)

Spec == Init /\ [][Next]_vars

\* ------------------------------------------------- the codec on its own
\* encode and decode called directly, with any ttl in MinTTL..MaxTTL and any
\* delay, as the codec's callers and tests can.
MinTTL == 0 - 1
MaxTTL == 2

TrialClaims ==
    {("e-mail" :> e) : e \in Emails}
        \cup {f @@ ("e-mail" :> e) : e \in Emails, f \in Profiles}

\* Token strings a caller of the codec can build from a token: those a client
\* can present, the token with a fourth segment, and a token signed under the
\* server's key whose expiry claim is a string.
ExtraSegment(token) == Append(token, token[3])
NonNumericExpiry(token) ==
    LET payload_b64 == B64Json(("exp" :> JStr("tomorrow")) @@ token[2].json)
    IN <<token[1], payload_b64,
         B64Bytes(HMAC_SHA256(jwt_key, token[1], payload_b64))>>
TrialTokens(tokens) ==
    Presentable(tokens) \cup {ExtraSegment(t) : t \in tokens}
                        \cup {NonNumericExpiry(t) : t \in tokens}

TrialEncode(claims, ttl) ==
    /\ LET token == encode(jwt_key, claims, ttl, now)
       IN trial' = [encoded |-> TRUE, claims |-> claims, ttl |-> ttl, at |-> now,
                    token |-> token,
                    valid_at_encode |-> is_valid_jwt(jwt_key, token, now),
                    decoded |-> FALSE, presented |-> <<>>, decoded_at |-> 0,
                    valid |-> FALSE,
                    result |-> [error |-> "", payload |-> NoPayload]]
    /\ UNCHANGED <<users, now, req, held, dropped, catalog>>

TrialDecode(token) ==
    /\ trial.encoded
    /\ trial' = [trial EXCEPT !.decoded = TRUE, !.presented = token,
                              !.decoded_at = now,
                              !.valid = is_valid_jwt(jwt_key, token, now),
                              !.result = decode(jwt_key, token, now)]
    /\ UNCHANGED <<users, now, req, held, dropped, catalog>>

NextCodec ==
    \/ Tick
    \/ \E c \in TrialClaims, ttl \in MinTTL..MaxTTL : TrialEncode(c, ttl)
    \/ \E t \in TrialTokens(IF trial.encoded THEN {trial.token} ELSE {}) :
           TrialDecode(t)

SpecCodec == Init /\ [][NextCodec]_vars

\* ------------------------------------------------------------ the catalog
\* Largest id the `item` and the `tag` table hand out.
MaxItemId == 2
MaxTagId == 2
\* A tag id no stored tag has.
AbsentTagId == MaxTagId + 1

TagNames == {"seafood", "fruit"}

\* A JSON array and a JSON object, as values of a posted mapping.
JList(l) == [list |-> l]
JObj(o) == [obj |-> o]

\* The jwt cookie a request comes with: none, or the token the client holds,
\* which expires with the clock.
NoJwtCookie == [has_jwt |-> FALSE, jwt |-> <<>>]
Cookies(tokens) ==
    {NoJwtCookie} \cup {[has_jwt |-> TRUE, jwt |-> t] : t \in tokens}

\* A gate that lets every request with a jwt cookie through.
verify_login_cookie_present(cookie, t) == cookie.has_jwt

\* @verify_login_or_return_401: the wrapped handler runs when the request has a
\* jwt cookie whose token is valid at the clock's reading.
verify_login_or_return_401(cookie, t) ==
    cookie.has_jwt /\ is_valid_jwt(jwt_key, cookie.jwt, t)

\* The request a catalog handler starts on.
Call(op, cookie) ==
    [NoServed EXCEPT !.op = op, !.has_jwt = cookie.has_jwt, !.jwt = cookie.jwt]

\* The gate's own response.
Unauthorized(q) == make_single_message_response(q, UNAUTHORIZED, "Unauthorized.")

\* An id one above the largest in use.
NextId(ids) ==
    IF ids = {} THEN 1 ELSE (CHOOSE m \in ids : \A n \in ids : n <= m) + 1

\* The columns of Item that a payload names, and the JSON type of each.
ItemColumns == {"avatar", "count", "name", "original", "discount"}
ItemColumnType ==
    [avatar |-> "str", count |-> "num", name |-> "str",
     original |-> "num", discount |-> "num"]

\* flatten_item_payload: avatar, count, name and the two prices of the nested
\* "price"; KeyError when one of them is missing.
flatten_item_payload(payload) ==
    IF /\ {"avatar", "count", "name", "price"} \subseteq DOMAIN payload
       /\ {"original", "discount"} \subseteq DOMAIN payload["price"].obj
    THEN [raised |-> "none",
          flat |-> [k \in ItemColumns |->
                       IF k \in {"original", "discount"}
                       THEN payload["price"].obj[k]
                       ELSE payload[k]]]
    ELSE [raised |-> "KeyError", flat |-> payload]

\* PayloadTypeChecker.Item(**payload) and PayloadTypeChecker.Tag(id=tag_id):
\* TRUE when no ValidationError is raised.
PayloadTypeChecker_Item(payload) ==
    \A k \in DOMAIN payload \cap ItemColumns : ItemColumnType[k] \in DOMAIN payload[k]
PayloadTypeChecker_Tag(tag_id) == "num" \in DOMAIN tag_id
PayloadTypeChecker_Tags(tag_ids) ==
    \A n \in 1..Len(tag_ids) : PayloadTypeChecker_Tag(tag_ids[n])

\* The foreign key of tag_of_item.tag_id: the INSERT of a relation to a tag
\* that is not stored raises IntegrityError.
ForeignKeyViolated(tag_tbl, tag_ids) ==
    \E n \in 1..Len(tag_ids) : tag_ids[n].num \notin {t.id : t \in tag_tbl}

\* TagOfItem(item_id=item_id, tag_id=tag_id) for tag_id in tag_ids
TagOfItemRows(item_id, tag_ids) ==
    {[item_id |-> item_id, tag_id |-> tag_ids[n].num] : n \in 1..Len(tag_ids)}

\* db.session.get(Item, id)
ItemsOfId(id) == {item \in items : item["id"].num = id}

\* What clients post to /items and put to /items/<id>.
ItemPayload(tag_ids) ==
    ("avatar" :> JStr("pen.png")) @@ ("count" :> JNum(1)) @@ ("name" :> JStr("pen"))
        @@ ("price" :> JObj(("original" :> JNum(5)) @@ ("discount" :> JNum(4))))
        @@ ("tags" :> JList(tag_ids))
TagIdLists ==
    {<<>>, <<JNum(1)>>, <<JNum(1), JNum(2)>>, <<JNum(AbsentTagId)>>}
AddPayloads ==
    {ItemPayload(l) : l \in TagIdLists}
        \cup { ("name" :> JStr("pen")) @@ ("tags" :> JList(<<>>)),
               [ItemPayload(<<>>) EXCEPT !["count"] = JStr("many")],
               ItemPayload(<<JStr("seafood")>>) }
UpdatePayloads ==
    {("tags" :> JList(l)) : l \in TagIdLists}
        \cup { ("price" :> JObj(("original" :> JNum(6)))),
               ("price" :> JObj(("original" :> JNum(6))))
                   @@ ("tags" :> JList(<<JNum(AbsentTagId)>>)),
               ("id" :> JNum(1)),
               ("colour" :> JStr("red")),
               ("count" :> JStr("many")),
               ("tags" :> JList(<<JStr("seafood")>>)) }

\* ----------------------------------------------------------- POST /items
\* add_item, lines 61-92. The IntegrityError of the commit on line 91 is not
\* caught: the transaction, the flushed item included, is rolled back.
add_item(cookie, payload) ==
    LET q == Call("add_item", cookie)
        flat_payload == flatten_item_payload(payload)
        item_id == NextId({item["id"].num : item \in items})
    IN /\ IF ~verify_login_or_return_401(cookie, now)
          THEN served' = Unauthorized(q) /\ UNCHANGED <<items, tag_of_items>>
          ELSE IF flat_payload.raised = "KeyError" \/ "tags" \notin DOMAIN payload
          THEN /\ served' = make_single_message_response(q, BAD_REQUEST,
                      "The data has the wrong format and the server can't understand it.")
               /\ UNCHANGED <<items, tag_of_items>>
          ELSE IF \/ ~PayloadTypeChecker_Item(flat_payload.flat)
                  \/ ~PayloadTypeChecker_Tags(payload["tags"].list)
          THEN /\ served' = make_single_message_response(q, UNPROCESSABLE_ENTITY,
                      "The posted data has the correct format, but the data is invalid.")
               /\ UNCHANGED <<items, tag_of_items>>
          ELSE IF ForeignKeyViolated(tags, payload["tags"].list)
          THEN served' = [q EXCEPT !.pc = "raised"] /\ UNCHANGED <<items, tag_of_items>>
          ELSE /\ item_id <= MaxItemId
               /\ items' = items \cup {flat_payload.flat @@ ("id" :> JNum(item_id))}
               /\ tag_of_items' =
                      tag_of_items \cup TagOfItemRows(item_id, payload["tags"].list)
               /\ served' = [q EXCEPT !.pc = "done", !.status = OK,
                                      !.body = {[id |-> item_id]}]
       /\ UNCHANGED <<users, now, req, held, dropped, trial, tags>>

\* ------------------------------------------------------ PUT /items/<id>
\* update_specific_item, lines 135-140: the nested "price" is flattened.
flatten_price(payload) ==
    IF "price" \notin DOMAIN payload THEN payload
    ELSE [k \in (DOMAIN payload \ {"price"})
                \cup (DOMAIN payload["price"].obj \cap {"original", "discount"}) |->
             IF k \in DOMAIN payload["price"].obj \cap {"original", "discount"}
             THEN payload["price"].obj[k]
             ELSE payload[k]]

\* update_specific_item, lines 165-166: setattr(item, key, value).
setattr_all(item, payload) ==
    [k \in DOMAIN item |-> IF k \in DOMAIN payload THEN payload[k] ELSE item[k]]

\* _setup_tags_relationship_of_item, lines 226-235. The commit on line 230
\* makes the removal of the item's relations permanent, together with what
\* the session holds of the item; the commit on line 235 stores the new
\* relations, or raises IntegrityError and stores none of them.
setup_tags_relationship_of_item(item_id, tags_id_list) ==
    LET dropped_all == {row \in tag_of_items : row.item_id # item_id}
    IN IF ForeignKeyViolated(tags, tags_id_list)
       THEN [raised |-> "IntegrityError", tag_of_items |-> dropped_all]
       ELSE [raised |-> "none",
             tag_of_items |-> dropped_all \cup TagOfItemRows(item_id, tags_id_list)]

\* update_specific_item, lines 121-179.
update_specific_item(cookie, id, body) ==
    LET q == Call("update_specific_item", cookie)
        payload == flatten_price(body)
    IN /\ IF ~verify_login_or_return_401(cookie, now)
          THEN served' = Unauthorized(q) /\ UNCHANGED <<items, tag_of_items>>
          ELSE IF ItemsOfId(id) = {}
          THEN /\ served' = make_single_message_response(q, FORBIDDEN,
                      "The specific item is absent.")
               /\ UNCHANGED <<items, tag_of_items>>
          ELSE LET item == CHOOSE i \in ItemsOfId(id) : TRUE
                   updated == (items \ {item}) \cup {setattr_all(item, payload)}
               IN IF \E key \in DOMAIN payload \ {"tags"} :
                         key \notin DOMAIN item \/ key = "id"
                  THEN /\ served' = make_single_message_response(q, BAD_REQUEST,
                              "The data has the wrong format and the server can't understand it.")
                       /\ UNCHANGED <<items, tag_of_items>>
                  ELSE IF \/ ~PayloadTypeChecker_Item(payload)
                          \/ /\ "tags" \in DOMAIN payload
                             /\ ~PayloadTypeChecker_Tags(payload["tags"].list)
                  THEN /\ served' = make_single_message_response(q, UNPROCESSABLE_ENTITY,
                              "The posted data has the correct format, but the data is invalid.")
                       /\ UNCHANGED <<items, tag_of_items>>
                  ELSE IF "tags" \notin DOMAIN payload
                  THEN /\ items' = updated
                       /\ UNCHANGED tag_of_items
                       /\ served' = make_single_message_response(q, OK, "OK")
                  ELSE LET setup == setup_tags_relationship_of_item(
                                        id, payload["tags"].list)
                       IN /\ items' = updated
                          /\ tag_of_items' = setup.tag_of_items
                          /\ served' =
                               IF setup.raised = "IntegrityError"
                               THEN make_single_message_response(q, UNPROCESSABLE_ENTITY,
                                        "The posted data has the correct format, but the data is invalid")
                               ELSE make_single_message_response(q, OK, "OK")
       /\ UNCHANGED <<users, now, req, held, dropped, trial, tags>>

\* --------------------------------------------------- DELETE /items/<id>
\* db.session.delete(item): the row leaves the table, and with it the
\* relations that refer to it.
delete_item_rows(id) ==
    [items |-> items \ ItemsOfId(id),
     tag_of_items |-> {row \in tag_of_items : row.item_id # id}]

\* delete_specific_item, lines 182-195.
delete_specific_item(cookie, id) ==
    LET q == Call("delete_specific_item", cookie)
    IN /\ IF ~verify_login_or_return_401(cookie, now)
          THEN served' = Unauthorized(q) /\ UNCHANGED <<items, tag_of_items>>
          ELSE IF ItemsOfId(id) = {}
          THEN /\ served' = make_single_message_response(q, FORBIDDEN,
                      "The specific item is absent.")
               /\ UNCHANGED <<items, tag_of_items>>
          ELSE /\ items' = delete_item_rows(id).items
               /\ tag_of_items' = delete_item_rows(id).tag_of_items
               /\ served' = make_single_message_response(q, OK, "OK")
       /\ UNCHANGED <<users, now, req, held, dropped, trial, tags>>

\* ------------------------------------------------------------ GET /items
\* fetch_all_items, lines 24-28: TagOfItem joined with Tag.
tag_of_items_joined ==
    {[item_id |-> p[1].item_id, tag_id |-> p[1].tag_id, tag_name |-> p[2].name] :
        p \in {p \in tag_of_items \X tags : p[2].id = p[1].tag_id}}

\* fetch_all_items, lines 30-39: the dict has a key for an item id only when a
\* joined row names it. The order of a tags list is the database's.
tags_list_dict_by_item_id ==
    [item_id \in {row.item_id : row \in tag_of_items_joined} |->
        {[id |-> row.tag_id, name |-> row.tag_name] :
            row \in {j \in tag_of_items_joined : j.item_id = item_id}}]

\* fetch_all_items, lines 44-56: the entry of one item.
item_represent(item, tag_list) ==
    [avatar |-> item["avatar"], count |-> item["count"], id |-> item["id"],
     name |-> item["name"],
     price |-> [discount |-> item["discount"], original |-> item["original"]],
     tags |-> tag_list]

\* fetch_all_items, lines 21-58. Line 54 indexes the dict with every item's
\* id: KeyError, which nothing catches, for an id that is not a key.
fetch_all_items ==
    LET q == Call("fetch_all_items", NoJwtCookie)
    IN /\ served' =
            IF \E item \in items :
                   item["id"].num \notin DOMAIN tags_list_dict_by_item_id
            THEN [q EXCEPT !.pc = "raised"]
            ELSE [q EXCEPT !.pc = "done", !.status = OK,
                           !.body = {item_represent(item,
                                        tags_list_dict_by_item_id[item["id"].num]) :
                                     item \in items}]
       /\ UNCHANGED <<users, now, req, held, dropped, trial, items, tags, tag_of_items>>

\* ------------------------------------------------------------ POST /tags
\* What clients post to /tags.
TagPayloads ==
    {NoData, ("should be name" :> JStr("xxx")), ("name" :> JNum(0))}
        \cup {("name" :> JStr(n)) : n \in TagNames}

\* A lookup that finds no tag.
tag_exists_never(tag_tbl, name) == FALSE

\* A stored tag has the name.
tag_exists(tag_tbl, name) == \E t \in tag_tbl : t.name = name

\* POST /tags: 401 without a session, 400 without a "name", 422 for a name
\* that is no string, 403 for a name a stored tag has; else the tag is stored.
post_tags(cookie, payload) ==
    LET q == Call("post_tags", cookie)
        tag_id == NextId({t.id : t \in tags})
    IN /\ IF ~verify_login_or_return_401(cookie, now)
          THEN served' = Unauthorized(q) /\ UNCHANGED tags
          ELSE IF payload = NoData \/ "name" \notin DOMAIN payload
          THEN /\ served' = make_single_message_response(q, BAD_REQUEST,
                                                         "WRONG_DATA_FORMAT")
               /\ UNCHANGED tags
          ELSE IF "str" \notin DOMAIN payload["name"]
          THEN /\ served' = make_single_message_response(q, UNPROCESSABLE_ENTITY,
                                                         "INVALID_DATA")
               /\ UNCHANGED tags
          ELSE IF tag_exists(tags, payload["name"].str)
          THEN /\ served' = make_single_message_response(
                                [q EXCEPT !.name = payload["name"].str], FORBIDDEN,
                                "The tag already exists in the database.")
               /\ UNCHANGED tags
          ELSE /\ tag_id <= MaxTagId
               /\ tags' = tags \cup {[id |-> tag_id, name |-> payload["name"].str]}
               /\ served' = make_single_message_response(
                                [q EXCEPT !.name = payload["name"].str], OK, "OK")
       /\ UNCHANGED <<users, now, req, held, dropped, trial, items, tag_of_items>>

\* ------------------------------------------- the catalog's specification
\* The client of the catalog is logged in, as the logged_in_client fixture is:
\* one user is registered and the client holds the token of its login at day 0.
FixtureUsers ==
    <<[email |-> "a@b.com", password |-> sha512["right"],
       profile |-> CHOOSE f \in Profiles : f.firstname = "A"]>>

InitItem ==
    /\ users = FixtureUsers
    /\ now = 0
    /\ req = [r \in Requests |-> Idle]
    /\ held = {encode(jwt_key, login_payload(FixtureUsers, "a@b.com"),
                      ExpirationTimeDelta, 0)}
    /\ dropped = {}
    /\ trial = [encoded |-> FALSE]
    /\ items = {}
    /\ tags = {}
    /\ tag_of_items = {}
    /\ served = NoServed

NextItem ==
    \/ Tick
    \/ \E c \in Cookies(held), p \in TagPayloads : post_tags(c, p)
    \/ \E c \in Cookies(held), p \in AddPayloads : add_item(c, p)
    \/ \E c \in Cookies(held), id \in 1..MaxItemId, p \in UpdatePayloads :
           update_specific_item(c, id, p)
    \/ \E c \in Cookies(held), id \in 1..MaxItemId : delete_specific_item(c, id)
    \/ fetch_all_items

SpecItem == InitItem /\ [][NextItem]_vars

\* ==================================================================
\* Properties
\* ==================================================================
RegisterDone(r) == req[r].op = "register" /\ req[r].pc = "done"

\* C1 (as claimed): of two Register requests with the same email, whatever
\* their interleaving, exactly one returns success and the other fails with
\* DuplicateEmail: when one of them has registered the email, the other ends
\* with EmailAlreadyRegisteredError and the 403 duplicate-account response.
C1_ExactlyOneWinner ==
    \A r1, r2 \in Requests :
        (/\ r1 # r2
         /\ RegisterDone(r1) /\ RegisterDone(r2)
         /\ req[r1].email = req[r2].email
         /\ req[r1].ret = "True")
        => /\ req[r2].ret = "EmailAlreadyRegisteredError"
           /\ req[r2].status = FORBIDDEN

\* C2: no two stored credentials share an email.
C2_EmailUnique ==
    \A i, j \in 1..Len(users) : users[i].email = users[j].email => i = j

\* C2 witness: both emails are stored and a registration of a stored email,
\* under another password, reached the INSERT and was refused.
C2_Witness ==
    /\ Len(users) = 2
    /\ \E r \in Requests :
           /\ RegisterDone(r)
           /\ req[r].ret = "EmailAlreadyRegisteredError"
           /\ \E i \in 1..Len(users) :
                  /\ users[i].email = req[r].email
                  /\ users[i].password # sha512[req[r].password]

\* C3 (as claimed): a Register call for an email that is already stored fails
\* with DuplicateEmail whatever the password, leaves the table unchanged, and
\* is answered 403 DUPLICATE_ACCOUNT.
C3_StoredEmailRejected ==
    [][\A r \in Requests :
          (/\ req[r].pc # "done"
           /\ req'[r].pc = "done"
           /\ req'[r].op = "register"
           /\ is_registered(users, req'[r].email))
          => /\ req'[r].ret = "EmailAlreadyRegisteredError"
             /\ req'[r].status = FORBIDDEN
             /\ req'[r].message = "DUPLICATE_ACCOUNT"
             /\ users' = users]_vars

\* The row stored for an email, and the password a digest was made of.
RowsOf(email) == {i \in 1..Len(users) : users[i].email = email}

\* C4: once (e, p, profile) is registered, login(e, p) succeeds with a token
\* whose decoded claims hold e and the registered profile fields, and
\* login(e, q) with q # p fails with the 403 INCORRECT_EMAIL_OR_PASSWORD
\* response and no token.
C4_LoginAfterRegister ==
    [][\A r \in Requests :
          (req[r].pc = "idle" /\ req'[r].op = "login")
          => \A i \in RowsOf(req'[r].email) :
                /\ users[i].password = sha512[req'[r].password]
                   => /\ req'[r].pc = "set_cookie"
                      /\ login(users, req'[r].email, req'[r].password)
                      /\ LET d == decode(jwt_key, req'[r].jwt, now)
                         IN /\ d.error = "none"
                            /\ d.payload["e-mail"] = req'[r].email
                            /\ \A k \in DOMAIN users[i].profile :
                                   d.payload[k] = users[i].profile[k]
                /\ (\E p \in Passwords :
                       /\ p # req'[r].password
                       /\ users[i].password = sha512[p])
                   => /\ req'[r].pc = "done"
                      /\ req'[r].status = FORBIDDEN
                      /\ req'[r].message = "INCORRECT_EMAIL_OR_PASSWORD"
                      /\ req'[r].jwt = <<>>
                      /\ ~req'[r].set_cookie.set]_vars

\* C4 witness: a login with the registered password ended 200 with a jwt cookie.
C4_Witness ==
    \E r \in Requests :
        /\ req[r].op = "login" /\ req[r].pc = "done" /\ req[r].status = OK
        /\ req[r].set_cookie.set
        /\ \E i \in RowsOf(req[r].email) :
               users[i].password = sha512[req[r].password]

\* The signature segment of a three-segment token is the one computed over its
\* header and payload under the server's key.
SignatureVerifies(token) ==
    /\ Len(token) = 3
    /\ token[3] = B64Bytes(HMAC_SHA256(jwt_key, token[1], token[2]))

\* C5: verify_jwt returns claims only for a token whose signature verifies
\* under the server's key, at a clock reading strictly before its expiry
\* claim; a token whose signature segment differs from the computed one is
\* never let past the pre-check nor answered with claims.
C5_OnlyValidTokensAccepted ==
    [][\A r \in Requests :
          /\ (req'[r].op = "verify_jwt" /\ req'[r].pc = "done"
              /\ req'[r].status = OK /\ req[r].pc # "done")
             => /\ SignatureVerifies(req'[r].jwt)
                /\ now < ExpOf(req'[r].jwt)
                /\ req'[r].payload = req'[r].jwt[2].json
          /\ (req'[r].op = "verify_jwt" /\ req'[r].has_jwt
              /\ ~SignatureVerifies(req'[r].jwt))
             => /\ req'[r].pc \notin {"decode"}
                /\ req'[r].status # OK
                /\ req'[r].payload = NoPayload]_vars

\* C5 witness: a held token was presented and answered with its claims.
C5_Witness ==
    \E r \in Requests :
        /\ req[r].op = "verify_jwt" /\ req[r].pc = "done" /\ req[r].status = OK
        /\ req[r].jwt \in held

\* A held token with its signature segment changed was presented and refused.
C5_WitnessTampered ==
    \E r \in Requests :
        /\ req[r].op = "verify_jwt" /\ req[r].pc = "done"
        /\ req[r].jwt \in {FlipSignature(t) : t \in held}
        /\ req[r].status = UNPROCESSABLE_ENTITY

\* C6 (as claimed): verify_jwt never ends in an uncontrolled error: no request
\* ends with an exception leaving its handler.
C6_NoUncaughtException ==
    \A r \in Requests : req[r].pc # "raised"

\* C7: logout revokes nothing. The logout handler leaves the table as it is, and
\* a token whose cookie a logout deleted is still let past the pre-check and
\* answered with its claims at every clock reading before its expiry claim.
C7_NoRevocation ==
    [][\A r \in Requests :
          /\ (req[r].pc = "idle" /\ req'[r].op = "logout")
             => /\ users' = users
                /\ req'[r].status = OK
                /\ req'[r].set_cookie = DeletedCookie
          /\ (req[r].pc = "idle" /\ req'[r].op = "verify_jwt"
              /\ req'[r].jwt \in dropped /\ now < ExpOf(req'[r].jwt))
             => req'[r].pc = "decode"
          /\ (req[r].pc = "decode" /\ req'[r].pc # "decode"
              /\ req[r].jwt \in dropped /\ now < ExpOf(req[r].jwt))
             => /\ req'[r].pc = "done"
                /\ req'[r].status = OK
                /\ req'[r].payload = req[r].jwt[2].json]_vars

\* C7 witness: after a logout response deleted the cookie, the token was
\* replayed and answered 200 with its claims.
C7_Witness ==
    \E r \in Requests :
        /\ req[r].op = "verify_jwt" /\ req[r].pc = "done" /\ req[r].status = OK
        /\ req[r].jwt \in dropped

\* The request that presents a token in the jwt cookie.
WithCookie(token) == [Idle EXCEPT !.op = "verify_jwt", !.has_jwt = TRUE, !.jwt = token]

\* C8: expiry is immediate and permanent. A token encoded with ttl <= 0 is
\* invalid at the instant of its encoding and verify_jwt answers it
\* INVALID_COOKIE; every token is invalid at every clock reading at or after
\* its expiry claim, where decode fails with Expired; and a token that is
\* invalid stays invalid as the clock advances.
C8_ExpiryImmediateAndPermanent ==
    [][trial'.encoded =>
         LET tk == trial'.token
             exp == trial'.at + trial'.ttl
         IN /\ trial'.ttl <= 0
               => /\ ~trial'.valid_at_encode
                  /\ verify_jwt_precheck(WithCookie(tk), trial'.at).status
                         = UNPROCESSABLE_ENTITY
            /\ now' >= exp
               => /\ ~is_valid_jwt(jwt_key, tk, now')
                  /\ verify_jwt_precheck(WithCookie(tk), now').status
                         = UNPROCESSABLE_ENTITY
            /\ (trial.encoded /\ trial.token = tk /\ ~is_valid_jwt(jwt_key, tk, now))
               => ~is_valid_jwt(jwt_key, tk, now')
            /\ (trial'.decoded /\ trial'.presented = tk /\ trial'.decoded_at >= exp)
               => trial'.result.error = "Expired"]_vars

\* C8 witness: a token encoded with ttl = 0 was decoded at the instant of its
\* encoding and refused as expired.
C8_Witness ==
    /\ trial.encoded /\ trial.ttl = 0
    /\ trial.decoded /\ trial.presented = trial.token
    /\ trial.decoded_at = trial.at
    /\ trial.result.error = "Expired"

\* A token that was valid when encoded was decoded at its expiry and refused.
C8_WitnessLater ==
    /\ trial.encoded /\ trial.ttl > 0 /\ trial.valid_at_encode
    /\ trial.decoded /\ trial.presented = trial.token
    /\ trial.decoded_at = trial.at + trial.ttl
    /\ trial.result.error = "Expired"

\* C9 (as claimed): the expires attribute of the jwt cookie set at login is the
\* instant of the expiry claim of the token it holds.
C9_CookieExpiryIsTokenExpiry ==
    \A r \in Requests :
        (req[r].op = "login" /\ req[r].pc = "done" /\ req[r].set_cookie.set)
        => req[r].set_cookie.expires = ExpOf(req[r].set_cookie.value)

ClientView(q) ==
    [status |-> q.status, message |-> q.message, set_cookie |-> q.set_cookie,
     payload |-> q.payload]

\* C11: login failure is generic. A login with an email that is not registered
\* and a login with a registered email and a password that is not the
\* registered one get the same response: 403 INCORRECT_EMAIL_OR_PASSWORD, no
\* cookie, no body.
C11_GenericLoginFailure ==
    [][\A r \in Requests :
          (/\ req[r].pc = "idle"
           /\ req'[r].op = "login"
           /\ req'[r].email \in Emails
           /\ \/ RowsOf(req'[r].email) = {}
              \/ \E i \in RowsOf(req'[r].email) :
                     users[i].password # sha512[req'[r].password])
          => /\ req'[r].pc = "done"
             /\ ClientView(req'[r]) =
                    [status |-> FORBIDDEN,
                     message |-> "INCORRECT_EMAIL_OR_PASSWORD",
                     set_cookie |-> NoCookie, payload |-> NoPayload]]_vars

\* C11 witness: one email is registered and the other is not, and a login with
\* the one that is not registered was refused.
C11_Witness ==
    \E r \in Requests :
        /\ req[r].op = "login" /\ req[r].pc = "done"
        /\ req[r].status = FORBIDDEN
        /\ req[r].email \in Emails
        /\ RowsOf(req[r].email) = {}
        /\ Len(users) = 1

\* A login with a registered email and another password was refused.
C11_WitnessWrongPassword ==
    \E r \in Requests :
        /\ req[r].op = "login" /\ req[r].pc = "done"
        /\ req[r].status = FORBIDDEN
        /\ \E i \in RowsOf(req[r].email) :
               users[i].password # sha512[req[r].password]

\* The three outcomes of verify_jwt.
NoSession(q) ==
    /\ q.pc = "done" /\ ~q.has_jwt
    /\ q.status = UNAUTHORIZED /\ q.message = "ABSENT_COOKIE"
InvalidSession(q) ==
    /\ q.pc = "done" /\ q.has_jwt
    /\ q.status = UNPROCESSABLE_ENTITY /\ q.message = "INVALID_COOKIE"
ClaimsReturned(q) ==
    /\ q.pc = "done" /\ q.has_jwt
    /\ q.status = OK /\ q.payload # NoPayload

\* C12 (as claimed): every verify_jwt request ends in exactly one of three
\* outcomes: NoSession when no jwt cookie is present, InvalidSession when the
\* pre-check refuses the cookie, the decoded claims otherwise.
C12_ExactlyOneOutcome ==
    \A r \in Requests :
        (req[r].op = "verify_jwt" /\ req[r].pc \in {"done", "raised"})
        => /\ NoSession(req[r]) \/ InvalidSession(req[r]) \/ ClaimsReturned(req[r])
           /\ ~(NoSession(req[r]) /\ InvalidSession(req[r]))
           /\ ~(NoSession(req[r]) /\ ClaimsReturned(req[r]))
           /\ ~(InvalidSession(req[r]) /\ ClaimsReturned(req[r]))

\* A token string of three segments whose payload has an expiry claim that is
\* no number.
HasNonNumericExpiry(token) ==
    /\ Len(token) = 3
    /\ IsB64Json(token[2])
    /\ "exp" \in DOMAIN token[2].json
    /\ "num" \notin DOMAIN token[2].json["exp"]

C13_WitnessFourSegments ==
    /\ trial.encoded /\ trial.decoded
    /\ Len(trial.presented) = 4
    /\ ~trial.valid

\* C15: stored credentials are never mutated. No step changes or removes a
\* stored row, and a step of login, verify_jwt or logout leaves the table as
\* it is, so every registered email keeps the digest and profile of its
\* registration.
C15_CredentialsNeverMutated ==
    [][/\ Len(users') >= Len(users)
       /\ \A i \in 1..Len(users) : users'[i] = users[i]
       /\ \A r \in Requests :
              (req'[r] # req[r] /\ req'[r].op \in {"login", "verify_jwt", "logout"})
              => users' = users]_vars

\* C15 witness: with both emails registered, a logout was answered.
C15_Witness ==
    /\ Len(users) = 2
    /\ \E r \in Requests : req[r].op = "logout" /\ req[r].pc = "done"

ProfileFields == {"firstname", "lastname", "gender", "birthday"}

\* C17: login_route sets the jwt cookie exactly on its success branch: the 400,
\* 422 and 403 responses carry none, a 200 response carries one and is given
\* only for a well-formed email that is registered with the posted password;
\* the token's payload has the keys e-mail, exp and the profile fields, no
\* password and no other posted key.
C17_CookieOnlyOnSuccess ==
    /\ \A d \in GoodLoginData : login_route_validation(d) = 0
    /\ \A d \in BadLoginData : login_route_validation(d) \in {BAD_REQUEST, UNPROCESSABLE_ENTITY}
    /\ \A r \in Requests :
        req[r].op = "login" =>
           /\ req[r].set_cookie.set <=> (req[r].pc = "done" /\ req[r].status = OK)
           /\ req[r].pc = "done"
              => req[r].status \in {OK, BAD_REQUEST, UNPROCESSABLE_ENTITY, FORBIDDEN}
           /\ (req[r].pc = "done" /\ req[r].status # OK)
              => req[r].jwt = <<>> /\ req[r].set_cookie = NoCookie
           /\ req[r].set_cookie.set
              => /\ is_valid_email(req[r].email)
                 /\ \E i \in RowsOf(req[r].email) :
                        users[i].password = sha512[req[r].password]
                 /\ req[r].set_cookie.value = req[r].jwt
                 /\ LET payload == req[r].jwt[2].json
                    IN /\ DOMAIN payload = {"e-mail", "exp"} \cup ProfileFields
                       /\ payload["e-mail"] = req[r].email
                       /\ \A i \in RowsOf(req[r].email), k \in ProfileFields :
                              payload[k] = users[i].profile[k]

\* C17 witness: a login was answered 200 with a jwt cookie whose payload holds
\* the profile.
C17_Witness ==
    \E r \in Requests :
        /\ req[r].op = "login" /\ req[r].pc = "done" /\ req[r].status = OK
        /\ req[r].set_cookie.set
        /\ "firstname" \in DOMAIN req[r].set_cookie.value[2].json

\* Logins were refused with 400 and with 422.
C17_WitnessBadRequest ==
    \E r \in Requests :
        req[r].op = "login" /\ req[r].pc = "done" /\ req[r].status = BAD_REQUEST
C17_WitnessInvalidData ==
    \E r \in Requests :
        req[r].op = "login" /\ req[r].pc = "done"
        /\ req[r].status = UNPROCESSABLE_ENTITY

\* A step in which a catalog handler served a request: every step but the
\* clock's leaves the clock as it is.
Handled(op) == now' = now /\ served'.op = op

\* The request served in the step came with a session: a jwt cookie whose token
\* is signed by the server and has not expired.
WithSession == served'.has_jwt /\ is_valid_jwt(jwt_key, served'.jwt, now)

GatedOps == {"post_tags", "add_item", "update_specific_item", "delete_specific_item"}

\* C14: a POST /tags, POST /items, PUT /items/<id> or DELETE /items/<id>
\* request without a valid jwt cookie is answered 401 Unauthorized and leaves
\* the stored items, tags and item-tag relations unchanged.
C14_GatedBySession ==
    [][\A op \in GatedOps :
          (Handled(op) /\ ~WithSession)
          => /\ served'.pc = "done"
             /\ served'.status = UNAUTHORIZED
             /\ served'.message = "Unauthorized."
             /\ items' = items /\ tags' = tags /\ tag_of_items' = tag_of_items]_vars

\* C14 witness: with items, tags and relations stored, a PUT that came with a
\* jwt cookie was answered 401.
C14_Witness ==
    /\ served.op = "update_specific_item" /\ served.status = UNAUTHORIZED
    /\ served.has_jwt
    /\ items # {} /\ tags # {} /\ tag_of_items # {}

\* Each gated endpoint answered 401 to a request without a jwt cookie.
C14_WitnessNoCookie ==
    /\ served.op = "delete_specific_item" /\ served.status = UNAUTHORIZED
    /\ ~served.has_jwt
    /\ items # {}

C18_UpdateAllOrNothing ==
    [][(/\ Handled("update_specific_item")
        /\ served'.status \in {FORBIDDEN, BAD_REQUEST, UNPROCESSABLE_ENTITY})
       => items' = items /\ tag_of_items' = tag_of_items]_vars

\* C19: GET /items is answered with one entry for every stored item, each with
\* the tags related to it (none for an item without relation), and never fails.
C19_FetchAllItemsTotal ==
    [][Handled("fetch_all_items")
       => /\ served'.pc = "done" /\ served'.status = OK
          /\ {e.id : e \in served'.body} = {item["id"] : item \in items}
          /\ \A e \in served'.body :
                 {t.id : t \in e.tags} =
                     {row.tag_id : row \in {j \in tag_of_items : j.item_id = e.id.num}}]_vars

====
